---- MODULE Spec2Model ----
(***************************************************************************)
(* State-machine model of grl::robot::arm::KukaJAVAdriver                  *)
(* (include/grl/kuka/KukaJAVAdriver.hpp).                                  *)
(*                                                                         *)
(* Caller threads invoke set(), get(KukaState&) and run_one(); one owner   *)
(* invokes construct() and the destructor, serialised against the          *)
(* steady-state calls; one worker thread runs device_driver_io_service.    *)
(* Every statement that touches shared state is a step of its own, so the  *)
(* interleavings the mutex allows are the interleavings of the model.      *)
(***************************************************************************)
EXTENDS Integers, Sequences, FiniteSets, TLC

(***************************************************************************)
(* Bounds of the model.                                                    *)
(***************************************************************************)
\* longest range a caller passes to set()
MaxLen == 2
\* most handlers pending in device_driver_io_service at one time
MaxQueue == 2

(***************************************************************************)
(* Values.                                                                 *)
(***************************************************************************)
Threads == {"a", "b"}

NoOwner == "none"

NULL == "null"

\* the ranges callers pass to set(): the empty range and the descending ramp
\* of length MaxLen, so that inputs differ in length and in content and the
\* order of the elements shows
Down(n) == [i \in 1..n |-> n + 1 - i]

InputSeqs == {<<>>, Down(MaxLen)}

\* the table a caller passes to construct(Params): one table that differs from
\* the default one the constructor stored
ParamSets == {"otherParams"}

defaultParams == "defaultParams"

JointAngleCommand == "revolute_joint_angle_open_chain_command_tag"

JointTorqueCommand == "revolute_joint_torque_open_chain_command_tag"

CartesianWrenchCommand == "cartesian_wrench_command_tag"

Kinds == {JointAngleCommand, JointTorqueCommand, CartesianWrenchCommand}

\* the fields of KukaState that set() writes
CommandFields == {"commandedPosition", "commandedTorque",
                  "commandedCartesianWrenchFeedForward"}

\* every field of KukaState the driver reads or writes
StateFields == CommandFields \cup {"torque"}

\* the field each overload of set() writes
FieldOf(kind) ==
    CASE kind = JointAngleCommand      -> "commandedPosition"
      [] kind = JointTorqueCommand     -> "commandedTorque"
      [] kind = CartesianWrenchCommand -> "commandedCartesianWrenchFeedForward"

VARIABLES
    armState,               \* KukaState armState
    jt_mutex,               \* boost::mutex jt_mutex: its owner, or NoOwner
    params_,                \* Params params_
    device_driver_workP_,   \* whether the io_service::work token exists
    driver_threadP,         \* the owned std::thread, or NULL
    kukaJavaDriverP,        \* the owned AzmqFlatbuffer, or NULL
    io_stopped,             \* device_driver_io_service.stopped()
    io_queue,               \* handlers pending in device_driver_io_service
    worker,                 \* position of the thread running io_service.run()
    life,                   \* position of the owner in construct() / ~KukaJAVAdriver()
    thrown,                 \* whether construct() is leaving by an exception
    pc,                     \* position of each caller thread
    call,                   \* arguments of each caller's set()
    loc,                    \* locals of each caller's run_one()
    out,                    \* the KukaState each caller's get() wrote
    ret,                    \* what each caller's last run_one() returned
    lastSet,                \* history: per field, the range of the last set() to complete
    snap,                   \* history: lastSet as it was when run_one() copied
    didSend,                \* history: whether the caller's run_one() submitted
    overlap                 \* history: whether the caller's set() ran while another
                            \* caller's set() of the same field was in progress

shared == <<armState, jt_mutex>>

lifecycle == <<params_, device_driver_workP_, driver_threadP, kukaJavaDriverP,
               life, thrown>>

service == <<io_stopped, io_queue, worker>>

callers == <<pc, call, loc, out, ret>>

history == <<lastSet, snap, didSend, overlap>>

vars == <<armState, jt_mutex, params_, device_driver_workP_, driver_threadP,
          kukaJavaDriverP, io_stopped, io_queue, worker, life, thrown,
          pc, call, loc, out, ret, lastSet, snap, didSend, overlap>>

(***************************************************************************)
(* Helpers: the library calls the driver makes.                            *)
(***************************************************************************)
\* boost::copy(range, std::back_inserter(container))
BackInsert(container, range) == container \o range

\* fbbP->CreateVector(&joints[0], joints.size())
CreateVector(joints) == [i \in 1..Len(joints) |-> joints[i]]

\* grl::flatbuffer::CreateJointState(*fbbP, jointPos, jointVel, jointAccel)
CreateJointState(jointPos, jointVel, jointAccel) ==
    [position |-> jointPos, velocity |-> jointVel, acceleration |-> jointAccel]

\* kukaJavaDriverP->async_send_flatbuffer(fbbP): the send is queued on the
\* io_service the socket was made with
async_send_flatbuffer(queue, msg) == Append(queue, msg)

\* boost::lock_guard<boost::mutex> lock(jt_mutex) may proceed
CanLock(mutex) == mutex = NoOwner

\* when device_driver_io_service.run() returns: stopped, or out of work
RunReturns(stopped, work, queue) == stopped \/ (~work /\ queue = <<>>)

\* std::copy(range, container) names no overload of std::copy.  The statement
\* has no clear(); the two readings that keep it so are writing through the
\* container's first elements, its size unchanged, and appending.
CopyInPlace(container, range) ==
    [i \in 1..Len(container) |-> IF i <= Len(range) THEN range[i] ELSE container[i]]

WrenchCopyOutcomes(container, range) ==
    {CopyInPlace(container, range)} \cup
    (IF Len(container) + Len(range) <= MaxLen
        THEN {BackInsert(container, range)} ELSE {})

\* return haveNewData
ReturnValue(haveNewData) == IF haveNewData THEN "true" ELSE "false"

\* variant: the submitting branch reports new data
HaveNewDataAfterSend_true(haveNewData) == TRUE

\* haveNewData is not assigned after the message is submitted
HaveNewDataAfterSend(haveNewData) == haveNewData

NoCall == [kind |-> "none", range |-> <<>>]

NoLocals == [joints |-> <<>>, jointPos |-> <<>>, jointVel |-> <<>>,
             jointAccel |-> <<>>, fbbP |-> <<>>, haveNewData |-> FALSE]

NoSnap == [position |-> <<>>, torque |-> <<>>, seen |-> {}]

\* history: a submitted message carries the number of messages submitted
\* before it that are still pending
Stamp(msg, n) ==
    [position |-> msg.position, velocity |-> msg.velocity,
     acceleration |-> msg.acceleration, ahead |-> n]

\* history: a pending message once the message tx has been transmitted
Overtaken(msg, tx) ==
    IF msg.ahead > tx.ahead THEN [msg EXCEPT !.ahead = @ - 1] ELSE msg

\* the queue once its i-th message has been transmitted
Without(queue, i) ==
    [j \in 1..(Len(queue) - 1) |->
        Overtaken(IF j < i THEN queue[j] ELSE queue[j + 1], queue[i])]

\* caller t is inside set()
InSet(t) == pc[t] \in {"s_lock", "s_clear", "s_copy", "s_unlock"}

AllIdle == \A t \in Threads : pc[t] = "idle"

\* caller t is inside run_one(), before its return
InRunOne(t) == pc[t] \in {"r_check", "r_lock1", "r_copy1", "r_unlock1", "r_lock2",
                          "r_vel", "r_copy2", "r_accel", "r_finish", "r_send",
                          "r_unlock2"}

\* history: the commanded angles and torques a StateStore s holds
Stored(s) == <<s.commandedPosition, s.commandedTorque>>

\* history: StateStore s can still be the snapshot of the message the
\* run_one() of u is building: its commanded torques are what run_one() will
\* copy as acceleration (armState.torque, which no operation writes) and, once
\* run_one() has taken the position, its commanded angles are that position
CanMatch(u, s) ==
    /\ s.commandedTorque = s.torque
    /\ pc[u] = "r_lock2" => s.commandedPosition = loc[u].jointPos

\* history: every run_one() in progress has seen the StateStore become s
Seen(s) ==
    [u \in Threads |->
        IF InRunOne(u) /\ CanMatch(u, s)
           THEN [snap[u] EXCEPT !.seen = @ \cup {Stored(s)}]
           ELSE snap[u]]

\* the process has not been ended by std::terminate() or a failed assertion
Alive == life # "aborted"

\* a caller may begin a steady-state call: the Driver is alive and the owner
\* is in neither construct() nor the destructor
MayCall(t) == pc[t] = "idle" /\ life = "idle"

(***************************************************************************)
(* Initial state: KukaJAVAdriver(Params params = defaultParams())          *)
(***************************************************************************)
Init ==
    /\ armState = [f \in StateFields |-> <<>>]
    /\ jt_mutex = NoOwner
    /\ params_ = defaultParams
    /\ device_driver_workP_ = FALSE
    /\ driver_threadP = NULL
    /\ kukaJavaDriverP = NULL
    /\ io_stopped = FALSE
    /\ io_queue = <<>>
    /\ worker = "none"
    /\ life = "idle"
    /\ thrown = FALSE
    /\ pc = [t \in Threads |-> "idle"]
    /\ call = [t \in Threads |-> NoCall]
    /\ loc = [t \in Threads |-> NoLocals]
    /\ out = [t \in Threads |-> <<>>]
    /\ ret = [t \in Threads |-> "none"]
    /\ lastSet = [f \in CommandFields |-> <<>>]
    /\ snap = [t \in Threads |-> NoSnap]
    /\ didSend = [t \in Threads |-> FALSE]
    /\ overlap = [t \in Threads |-> FALSE]

(***************************************************************************)
(* set(range, tag)                                                         *)
(***************************************************************************)
SetCall(t, kind, range) ==
    /\ MayCall(t)
    /\ pc' = [pc EXCEPT ![t] = "s_lock"]
    /\ call' = [call EXCEPT ![t] = [kind |-> kind, range |-> range]]
    /\ overlap' = [u \in Threads |->
                     IF \E v \in Threads \ {t} : InSet(v) /\ call[v].kind = kind
                        THEN u = t \/ overlap[u] \/ (InSet(u) /\ call[u].kind = kind)
                        ELSE overlap[u]]
    /\ UNCHANGED <<shared, lifecycle, service, loc, out, ret, lastSet, snap, didSend>>

\* boost::lock_guard<boost::mutex> lock(jt_mutex);
SetLock(t) ==
    /\ Alive
    /\ pc[t] = "s_lock"
    /\ CanLock(jt_mutex)
    /\ jt_mutex' = t
    /\ pc' = [pc EXCEPT ![t] =
                IF call[t].kind = CartesianWrenchCommand THEN "s_copy" ELSE "s_clear"]
    /\ UNCHANGED <<armState, lifecycle, service, call, loc, out, ret, history>>

\* armState.commandedPosition.clear(); / armState.commandedTorque.clear();
SetClear(t) ==
    /\ Alive
    /\ pc[t] = "s_clear"
    /\ armState' = [armState EXCEPT ![FieldOf(call[t].kind)] = <<>>]
    /\ snap' = Seen(armState')
    /\ pc' = [pc EXCEPT ![t] = "s_copy"]
    /\ UNCHANGED <<jt_mutex, lifecycle, service, call, loc, out, ret, lastSet,
                   didSend, overlap>>

\* boost::copy(range, std::back_inserter(field)); / std::copy(range, field);
SetCopy(t) ==
    /\ Alive
    /\ pc[t] = "s_copy"
    /\ LET f == FieldOf(call[t].kind) IN
         IF call[t].kind = CartesianWrenchCommand
            THEN \E w \in WrenchCopyOutcomes(armState[f], call[t].range) :
                    armState' = [armState EXCEPT ![f] = w]
            ELSE armState' = [armState EXCEPT
                                ![f] = BackInsert(armState[f], call[t].range)]
    /\ snap' = Seen(armState')
    /\ pc' = [pc EXCEPT ![t] = "s_unlock"]
    /\ UNCHANGED <<jt_mutex, lifecycle, service, call, loc, out, ret, lastSet,
                   didSend, overlap>>

\* the lock_guard leaves scope and set() returns
SetUnlock(t) ==
    /\ Alive
    /\ pc[t] = "s_unlock"
    /\ jt_mutex' = NoOwner
    /\ lastSet' = [lastSet EXCEPT ![FieldOf(call[t].kind)] = call[t].range]
    /\ pc' = [pc EXCEPT ![t] = "idle"]
    /\ call' = [call EXCEPT ![t] = NoCall]
    /\ overlap' = [overlap EXCEPT ![t] = FALSE]
    /\ UNCHANGED <<armState, lifecycle, service, loc, out, ret, snap, didSend>>

(***************************************************************************)
(* get(KukaState & state)                                                  *)
(***************************************************************************)
GetCall(t) ==
    /\ MayCall(t)
    /\ pc' = [pc EXCEPT ![t] = "g_lock"]
    /\ UNCHANGED <<shared, lifecycle, service, call, loc, out, ret, history>>

GetLock(t) ==
    /\ Alive
    /\ pc[t] = "g_lock"
    /\ CanLock(jt_mutex)
    /\ jt_mutex' = t
    /\ pc' = [pc EXCEPT ![t] = "g_copy"]
    /\ UNCHANGED <<armState, lifecycle, service, call, loc, out, ret, history>>

\* state = armState;
GetCopy(t) ==
    /\ Alive
    /\ pc[t] = "g_copy"
    /\ out' = [out EXCEPT ![t] = <<armState>>]
    /\ pc' = [pc EXCEPT ![t] = "g_unlock"]
    /\ UNCHANGED <<shared, lifecycle, service, call, loc, ret, history>>

\* the lock_guard leaves scope and get() returns
GetUnlock(t) ==
    /\ Alive
    /\ pc[t] = "g_unlock"
    /\ jt_mutex' = NoOwner
    /\ pc' = [pc EXCEPT ![t] = "idle"]
    /\ out' = [out EXCEPT ![t] = <<>>]
    /\ UNCHANGED <<armState, lifecycle, service, call, loc, ret, history>>

(***************************************************************************)
(* get(OutputIterator output, revolute_joint_angle_open_chain_state_tag)   *)
(***************************************************************************)
GetStateCall(t) ==
    /\ MayCall(t)
    /\ pc' = [pc EXCEPT ![t] = "gs_verify"]
    /\ UNCHANGED <<shared, lifecycle, service, call, loc, out, ret, history>>

\* BOOST_VERIFY(false); // not implemented yet
\* without NDEBUG the assertion fails and the process is aborted; with NDEBUG
\* BOOST_VERIFY evaluates its argument, checks nothing, and get() returns
GetStateVerify(t) ==
    /\ Alive
    /\ pc[t] = "gs_verify"
    /\ \/ /\ pc' = [pc EXCEPT ![t] = "gs_failed"]
          /\ life' = "aborted"
       \/ /\ pc' = [pc EXCEPT ![t] = "idle"]
          /\ life' = life
    /\ UNCHANGED <<shared, params_, device_driver_workP_, driver_threadP,
                   kukaJavaDriverP, thrown, service, call, loc, out, ret, history>>

(***************************************************************************)
(* run_one()                                                               *)
(***************************************************************************)
\* bool haveNewData = false;
RunOneCall(t) ==
    /\ MayCall(t)
    /\ pc' = [pc EXCEPT ![t] = "r_check"]
    /\ loc' = [loc EXCEPT ![t] = [NoLocals EXCEPT !.haveNewData = FALSE]]
    /\ snap' = [snap EXCEPT ![t].seen =
                   IF armState.commandedTorque = armState.torque
                      THEN {Stored(armState)} ELSE {}]
    /\ UNCHANGED <<shared, lifecycle, service, call, out, ret, lastSet, didSend,
                   overlap>>

\* variant: the test of kukaJavaDriverP is missing
RunOneCheck_noGuard(t) ==
    /\ Alive
    /\ pc[t] = "r_check"
    /\ pc' = [pc EXCEPT ![t] = "r_lock1"]
    /\ loc' = [loc EXCEPT ![t].joints = <<>>, ![t].fbbP = <<>>]
    /\ UNCHANGED <<shared, lifecycle, service, call, out, ret, history>>

\* if(kukaJavaDriverP) { std::vector<double> joints;
\*   auto fbbP = ...->GetUnusedBufferBuilder(); joints.clear(); ...
\* } (else) return haveNewData;
RunOneCheck(t) ==
    /\ Alive
    /\ pc[t] = "r_check"
    /\ IF kukaJavaDriverP = NULL
          THEN /\ pc' = [pc EXCEPT ![t] = "r_ret"]
               /\ ret' = [ret EXCEPT ![t] = ReturnValue(loc[t].haveNewData)]
               /\ snap' = [snap EXCEPT ![t] = NoSnap]
               /\ UNCHANGED loc
          ELSE /\ pc' = [pc EXCEPT ![t] = "r_lock1"]
               /\ loc' = [loc EXCEPT ![t].joints = <<>>, ![t].fbbP = <<>>]
               /\ UNCHANGED <<ret, snap>>
    /\ UNCHANGED <<shared, lifecycle, service, call, out, lastSet, didSend, overlap>>

\* { boost::lock_guard<boost::mutex> lock(jt_mutex);
RunOneLock1(t) ==
    /\ Alive
    /\ pc[t] = "r_lock1"
    /\ CanLock(jt_mutex)
    /\ jt_mutex' = t
    /\ pc' = [pc EXCEPT ![t] = "r_copy1"]
    /\ UNCHANGED <<armState, lifecycle, service, call, loc, out, ret, history>>

\* variant: the position copy reads the commanded torque
RunOneCopyPosition_wrongField(t) ==
    /\ Alive
    /\ pc[t] = "r_copy1"
    /\ loc' = [loc EXCEPT ![t].joints =
                 BackInsert(loc[t].joints, armState.commandedTorque)]
    /\ snap' = [snap EXCEPT ![t].position = lastSet.commandedPosition,
                            ![t].seen = {s \in @ : s[1] = loc'[t].joints}]
    /\ pc' = [pc EXCEPT ![t] = "r_unlock1"]
    /\ UNCHANGED <<shared, lifecycle, service, call, out, ret, lastSet, didSend,
                   overlap>>

\* boost::copy(armState.commandedPosition, std::back_inserter(joints));
RunOneCopyPosition(t) ==
    /\ Alive
    /\ pc[t] = "r_copy1"
    /\ loc' = [loc EXCEPT ![t].joints =
                 BackInsert(loc[t].joints, armState.commandedPosition)]
    /\ snap' = [snap EXCEPT ![t].position = lastSet.commandedPosition,
                            ![t].seen = {s \in @ : s[1] = loc'[t].joints}]
    /\ pc' = [pc EXCEPT ![t] = "r_unlock1"]
    /\ UNCHANGED <<shared, lifecycle, service, call, out, ret, lastSet, didSend,
                   overlap>>

\* variant: the first lock_guard is still in scope when the second is made
RunOneUnlock1_keepsLock(t) ==
    /\ Alive
    /\ pc[t] = "r_unlock1"
    /\ loc' = [loc EXCEPT ![t].jointPos = CreateVector(loc[t].joints),
                          ![t].joints = <<>>]
    /\ pc' = [pc EXCEPT ![t] = "r_lock2"]
    /\ UNCHANGED <<shared, lifecycle, service, call, out, ret, history>>

\* } the first lock_guard leaves scope, then on the caller's own locals:
\* auto jointPos = fbbP->CreateVector(&joints[0], joints.size()); joints.clear();
RunOneUnlock1(t) ==
    /\ Alive
    /\ pc[t] = "r_unlock1"
    /\ jt_mutex' = NoOwner
    /\ loc' = [loc EXCEPT ![t].jointPos = CreateVector(loc[t].joints),
                          ![t].joints = <<>>]
    /\ pc' = [pc EXCEPT ![t] = "r_lock2"]
    /\ UNCHANGED <<armState, lifecycle, service, call, out, ret, history>>

\* { boost::lock_guard<boost::mutex> lock(jt_mutex);
RunOneLock2(t) ==
    /\ Alive
    /\ pc[t] = "r_lock2"
    /\ CanLock(jt_mutex)
    /\ jt_mutex' = t
    /\ pc' = [pc EXCEPT ![t] = "r_vel"]
    /\ UNCHANGED <<armState, lifecycle, service, call, loc, out, ret, history>>

\* auto jointVel = fbbP->CreateVector(&joints[0], joints.size());
RunOneCreateVelocity(t) ==
    /\ Alive
    /\ pc[t] = "r_vel"
    /\ loc' = [loc EXCEPT ![t].jointVel = CreateVector(loc[t].joints)]
    /\ pc' = [pc EXCEPT ![t] = "r_copy2"]
    /\ UNCHANGED <<shared, lifecycle, service, call, out, ret, history>>

\* joints.clear(); boost::copy(armState.torque, std::back_inserter(joints));
RunOneCopyTorque(t) ==
    /\ Alive
    /\ pc[t] = "r_copy2"
    /\ loc' = [loc EXCEPT ![t].joints = BackInsert(<<>>, armState.torque)]
    /\ snap' = [snap EXCEPT ![t].torque = lastSet.commandedTorque,
                            ![t].seen = {s \in @ : s[2] = loc'[t].joints}]
    /\ pc' = [pc EXCEPT ![t] = "r_accel"]
    /\ UNCHANGED <<shared, lifecycle, service, call, out, ret, lastSet, didSend,
                   overlap>>

\* auto jointAccel = fbbP->CreateVector(&joints[0], joints.size());
RunOneCreateAcceleration(t) ==
    /\ Alive
    /\ pc[t] = "r_accel"
    /\ loc' = [loc EXCEPT ![t].jointAccel = CreateVector(loc[t].joints)]
    /\ pc' = [pc EXCEPT ![t] = "r_finish"]
    /\ UNCHANGED <<shared, lifecycle, service, call, out, ret, history>>

\* CreateJointState(*fbbP, jointPos, jointVel, jointAccel); FinishJointStateBuffer(...);
RunOneFinish(t) ==
    /\ Alive
    /\ pc[t] = "r_finish"
    /\ loc' = [loc EXCEPT ![t].fbbP =
                 <<CreateJointState(loc[t].jointPos, loc[t].jointVel,
                                    loc[t].jointAccel)>>]
    /\ pc' = [pc EXCEPT ![t] = "r_send"]
    /\ UNCHANGED <<shared, lifecycle, service, call, out, ret, history>>

\* variant: the message is submitted ahead of the pending ones
RunOneSend_atFront(t) ==
    /\ Alive
    /\ pc[t] = "r_send"
    /\ Len(io_queue) < MaxQueue
    /\ io_queue' = <<Stamp(loc[t].fbbP[1], Len(io_queue))>> \o io_queue
    /\ loc' = [loc EXCEPT ![t].haveNewData = HaveNewDataAfterSend(loc[t].haveNewData)]
    /\ didSend' = [didSend EXCEPT ![t] = TRUE]
    /\ pc' = [pc EXCEPT ![t] = "r_unlock2"]
    /\ UNCHANGED <<shared, lifecycle, io_stopped, worker, call, out, ret,
                   lastSet, snap, overlap>>

\* kukaJavaDriverP->async_send_flatbuffer(fbbP);
RunOneSend(t) ==
    /\ Alive
    /\ pc[t] = "r_send"
    /\ Len(io_queue) < MaxQueue
    /\ io_queue' = async_send_flatbuffer(io_queue,
                                         Stamp(loc[t].fbbP[1], Len(io_queue)))
    /\ loc' = [loc EXCEPT ![t].haveNewData = HaveNewDataAfterSend(loc[t].haveNewData)]
    /\ didSend' = [didSend EXCEPT ![t] = TRUE]
    /\ pc' = [pc EXCEPT ![t] = "r_unlock2"]
    /\ UNCHANGED <<shared, lifecycle, io_stopped, worker, call, out, ret,
                   lastSet, snap, overlap>>

\* } the second lock_guard leaves scope; return haveNewData;
RunOneUnlock2(t) ==
    /\ Alive
    /\ pc[t] = "r_unlock2"
    /\ jt_mutex' = NoOwner
    /\ ret' = [ret EXCEPT ![t] = ReturnValue(loc[t].haveNewData)]
    /\ loc' = [loc EXCEPT ![t] = NoLocals]
    /\ snap' = [snap EXCEPT ![t] = NoSnap]
    /\ pc' = [pc EXCEPT ![t] = "r_ret"]
    /\ UNCHANGED <<armState, lifecycle, service, call, out, lastSet, didSend,
                   overlap>>

\* the caller has the returned value and goes on
RunOneReturn(t) ==
    /\ Alive
    /\ pc[t] = "r_ret"
    /\ ret' = [ret EXCEPT ![t] = "none"]
    /\ didSend' = [didSend EXCEPT ![t] = FALSE]
    /\ pc' = [pc EXCEPT ![t] = "idle"]
    /\ UNCHANGED <<shared, lifecycle, service, call, loc, out, lastSet, snap,
                   overlap>>

(***************************************************************************)
(* construct(Params params)                                                *)
(***************************************************************************)
\* variant: no keep-alive token is created
ConstructCall_noToken(params) ==
    /\ life = "idle"
    /\ AllIdle
    /\ params_' = params
    /\ life' = "c_socket"
    /\ UNCHANGED <<shared, device_driver_workP_, driver_threadP, kukaJavaDriverP,
                   thrown, service, callers, history>>

\* params_ = params; device_driver_workP_.reset(new io_service::work(...));
ConstructCall(params) ==
    /\ life = "idle"
    /\ AllIdle
    /\ params_' = params
    /\ device_driver_workP_' = TRUE
    /\ life' = "c_socket"
    /\ UNCHANGED <<shared, driver_threadP, kukaJavaDriverP, thrown, service, callers,
                   history>>

\* the handle a successful socket construction, bind and connect stores
NewTransport(old) == IF old = NULL THEN "transport1" ELSE "transport2"

\* socket.bind(...); socket.connect(...);
\* kukaJavaDriverP = std::make_shared<AzmqFlatbuffer>(std::move(socket));
ConstructSocket ==
    /\ life = "c_socket"
    /\ kukaJavaDriverP' = NewTransport(kukaJavaDriverP)
    /\ life' = "c_thread"
    /\ UNCHANGED <<shared, params_, device_driver_workP_, driver_threadP, thrown,
                   service, callers, history>>

\* variant: the handle is stored before bind and connect are attempted
ConstructFail_storesHandle ==
    /\ life = "c_socket"
    /\ kukaJavaDriverP' = NewTransport(kukaJavaDriverP)
    /\ thrown' = TRUE
    /\ life' = "c_thrown"
    /\ UNCHANGED <<shared, params_, device_driver_workP_, driver_threadP,
                   service, callers, history>>

\* variant: the handler of the failure drops the handle the Driver held
ConstructFail_dropsHandle ==
    /\ life = "c_socket"
    /\ kukaJavaDriverP' = NULL
    /\ thrown' = TRUE
    /\ life' = "c_thrown"
    /\ UNCHANGED <<shared, params_, device_driver_workP_, driver_threadP,
                   service, callers, history>>

\* bind or connect throws: catch(boost::exception &e) { e << errmsg_info(...); throw; }
ConstructFail ==
    /\ life = "c_socket"
    /\ thrown' = TRUE
    /\ life' = "c_thrown"
    /\ UNCHANGED <<shared, params_, device_driver_workP_, driver_threadP,
                   kukaJavaDriverP, service, callers, history>>

\* the caller of construct() has the exception and goes on
ConstructThrown ==
    /\ life = "c_thrown"
    /\ thrown' = FALSE
    /\ life' = "idle"
    /\ UNCHANGED <<shared, params_, device_driver_workP_, driver_threadP,
                   kukaJavaDriverP, service, callers, history>>

\* the std::thread a new std::thread(...) creates
NewThread(old) == IF old = NULL THEN "thread1" ELSE "thread2"

\* variant: the std::thread held before is detached and construct() returns
ConstructThread_detaches ==
    /\ life = "c_thread"
    /\ driver_threadP' = NewThread(driver_threadP)
    /\ worker' = IF driver_threadP = NULL THEN "spawned" ELSE worker
    /\ life' = "idle"
    /\ UNCHANGED <<shared, params_, device_driver_workP_, kukaJavaDriverP, thrown,
                   io_stopped, io_queue, callers, history>>

\* variant: the thread is started but the Driver does not keep it
ConstructThread_notKept ==
    /\ life = "c_thread"
    /\ worker' = "spawned"
    /\ life' = "idle"
    /\ UNCHANGED <<shared, params_, device_driver_workP_, driver_threadP,
                   kukaJavaDriverP, thrown, io_stopped, io_queue, callers, history>>

\* driver_threadP.reset(new std::thread([&]{ device_driver_io_service.run(); }));
\* the new std::thread is made and stored, then reset() destroys the std::thread
\* it held before: that one is joinable, so ~thread() calls std::terminate()
\* and the process ends with the first worker neither stopped nor joined
ConstructThread ==
    /\ life = "c_thread"
    /\ driver_threadP' = NewThread(driver_threadP)
    /\ IF driver_threadP = NULL
          THEN /\ worker' = "spawned"
               /\ life' = "idle"
          ELSE /\ life' = "aborted"
               /\ UNCHANGED worker
    /\ UNCHANGED <<shared, params_, device_driver_workP_, kukaJavaDriverP, thrown,
                   io_stopped, io_queue, callers, history>>

(***************************************************************************)
(* ~KukaJAVAdriver()                                                       *)
(***************************************************************************)
\* device_driver_workP_.reset();
DestroyCall ==
    /\ life = "idle"
    /\ AllIdle
    /\ device_driver_workP_' = FALSE
    /\ life' = "d_check"
    /\ UNCHANGED <<shared, params_, driver_threadP, kukaJavaDriverP, thrown,
                   service, callers, history>>

\* variant: the destructor stops and joins without testing driver_threadP
DestroyStop_noCheck ==
    /\ life = "d_check"
    /\ io_stopped' = TRUE
    /\ life' = "d_join"
    /\ UNCHANGED <<shared, params_, device_driver_workP_, driver_threadP,
                   kukaJavaDriverP, thrown, io_queue, worker, callers, history>>

\* if(driver_threadP){ device_driver_io_service.stop();
DestroyStop ==
    /\ life = "d_check"
    /\ IF driver_threadP # NULL
          THEN /\ io_stopped' = TRUE
               /\ life' = "d_join"
          ELSE /\ life' = "stopped"
               /\ UNCHANGED io_stopped
    /\ UNCHANGED <<shared, params_, device_driver_workP_, driver_threadP,
                   kukaJavaDriverP, thrown, io_queue, worker, callers, history>>

\* driver_threadP->join(); }
DestroyJoin ==
    /\ life = "d_join"
    /\ worker = "exited"
    /\ life' = "stopped"
    /\ UNCHANGED <<shared, params_, device_driver_workP_, driver_threadP,
                   kukaJavaDriverP, thrown, service, callers, history>>

(***************************************************************************)
(* The worker: [&]{ device_driver_io_service.run(); }                      *)
(***************************************************************************)
\* the thread is scheduled and enters run()
WorkerStart ==
    /\ worker = "spawned"
    /\ life # "aborted"
    /\ worker' = "running"
    /\ UNCHANGED <<shared, lifecycle, io_stopped, io_queue, callers, history>>

\* run() executes the oldest pending handler: the message is transmitted
WorkerTransmit ==
    /\ worker = "running"
    /\ life # "aborted"
    /\ ~io_stopped
    /\ io_queue # <<>>
    /\ io_queue' = Without(io_queue, 1)
    /\ UNCHANGED <<shared, lifecycle, io_stopped, worker, callers, history>>

\* variant: the thread function restarts the loop whenever run() returns
WorkerExit_restarts ==
    /\ worker = "running"
    /\ life # "aborted"
    /\ RunReturns(io_stopped, device_driver_workP_, io_queue)
    /\ io_stopped' = FALSE
    /\ UNCHANGED <<shared, lifecycle, io_queue, worker, callers, history>>

\* run() returns and the thread function ends
WorkerExit ==
    /\ worker = "running"
    /\ life # "aborted"
    /\ RunReturns(io_stopped, device_driver_workP_, io_queue)
    /\ worker' = "exited"
    /\ io_stopped' = TRUE
    /\ UNCHANGED <<shared, lifecycle, io_queue, callers, history>>

(***************************************************************************)
(* Specification                                                           *)
(***************************************************************************)
Next ==
    \/ \E t \in Threads, kind \in Kinds, range \in InputSeqs : SetCall(t, kind, range)
    \/ \E t \in Threads : SetLock(t)
    \/ \E t \in Threads : SetClear(t)
    \/ \E t \in Threads : SetCopy(t)
    \/ \E t \in Threads : SetUnlock(t)
    \/ \E t \in Threads : GetCall(t)
    \/ \E t \in Threads : GetLock(t)
    \/ \E t \in Threads : GetCopy(t)
    \/ \E t \in Threads : GetUnlock(t)
    \/ \E t \in Threads : GetStateCall(t)
    \/ \E t \in Threads : GetStateVerify(t)
    \/ \E t \in Threads : RunOneCall(t)
    \/ \E t \in Threads : RunOneCheck(t)
    \/ \E t \in Threads : RunOneLock1(t)
    \/ \E t \in Threads : RunOneCopyPosition(t)
    \/ \E t \in Threads : RunOneUnlock1(t)
    \/ \E t \in Threads : RunOneLock2(t)
    \/ \E t \in Threads : RunOneCreateVelocity(t)
    \/ \E t \in Threads : RunOneCopyTorque(t)
    \/ \E t \in Threads : RunOneCreateAcceleration(t)
    \/ \E t \in Threads : RunOneFinish(t)
    \/ \E t \in Threads : RunOneSend(t)
    \/ \E t \in Threads : RunOneUnlock2(t)
    \/ \E t \in Threads : RunOneReturn(t)
    \/ \E params \in ParamSets : ConstructCall(params)
    \/ ConstructSocket
    \/ ConstructFail
    \/ ConstructThrown
    \/ ConstructThread
    \/ DestroyCall
    \/ DestroyStop
    \/ DestroyJoin
    \/ WorkerStart
    \/ WorkerTransmit
    \/ WorkerExit

Spec == Init /\ [][Next]_vars

\* the scheduler runs the worker and the destructing thread when they can run
FairSpec ==
    /\ Spec
    /\ WF_vars(WorkerStart)
    /\ WF_vars(WorkerTransmit)
    /\ WF_vars(WorkerExit)
    /\ WF_vars(DestroyStop)
    /\ WF_vars(DestroyJoin)

\* caller t acquires jt_mutex
Acquire(t) == SetLock(t) \/ GetLock(t) \/ RunOneLock1(t) \/ RunOneLock2(t)

\* caller t takes a step of its call that waits for nothing but the scheduler
\* (and, to submit, for room in the queue)
CallerStep(t) ==
    \/ SetClear(t) \/ SetCopy(t) \/ SetUnlock(t)
    \/ GetCopy(t) \/ GetUnlock(t)
    \/ RunOneCheck(t) \/ RunOneCopyPosition(t) \/ RunOneUnlock1(t)
    \/ RunOneCreateVelocity(t) \/ RunOneCopyTorque(t)
    \/ RunOneCreateAcceleration(t) \/ RunOneFinish(t) \/ RunOneSend(t)
    \/ RunOneUnlock2(t) \/ RunOneReturn(t)

\* fair scheduling of the callers: a caller that can step does, and a caller
\* waiting for jt_mutex gets it when it is free again and again; the worker is
\* scheduled too
FairCallers ==
    /\ Spec
    /\ WF_vars(WorkerStart)
    /\ WF_vars(WorkerTransmit)
    /\ \A t \in Threads : WF_vars(CallerStep(t)) /\ SF_vars(Acquire(t))

(***************************************************************************)
(* Properties                                                              *)
(***************************************************************************)
Other(t) == CHOOSE u \in Threads : u # t

\* t takes the step of run_one() that submits the message
Submits(t) == pc[t] = "r_send" /\ pc'[t] = "r_unlock2"

\* the message the submitting step has queued
Submitted == io_queue'[Len(io_queue')]

\* C1 (as claimed): jt_mutex is held only while a field of armState is copied
\* into joints: no caller holds it while run_one() appends a vector to the
\* message, finalizes the message or submits it to the Transport
C1_LockOnlyWhileCopying ==
    \A t \in Threads :
        pc[t] \in {"r_vel", "r_accel", "r_finish", "r_send"} => jt_mutex # t

\* C2: with a Transport configured, the message run_one() submits has as its
\* position field exactly the range of the last set(range, JointAngleCommand)
\* completed before run_one() copied the position, element for element
C2_PositionIsLastAngleCommand ==
    [][\A t \in Threads :
          Submits(t) =>
             /\ Len(io_queue') = Len(io_queue) + 1
             /\ Submitted.position = snap[t].position]_vars

\* a run_one() has submitted a descending ramp set by set(.., JointAngleCommand)
C2_Witness ==
    \E t \in Threads :
        /\ pc[t] = "r_unlock2"
        /\ kukaJavaDriverP # NULL
        /\ snap[t].position = Down(MaxLen)
        /\ io_queue # <<>>
        /\ io_queue[Len(io_queue)].position = Down(MaxLen)

\* C3 (as claimed): with a Transport configured, the message run_one() submits
\* has as its acceleration field the range of the last completed
\* set(range, JointTorqueCommand), and an empty velocity field
C3_AccelerationIsLastTorqueCommand ==
    [][\A t \in Threads :
          Submits(t) =>
             /\ Submitted.acceleration = snap[t].torque
             /\ Submitted.velocity = <<>>]_vars

\* C4 (as claimed): every set(range, kind) replaces exactly the field of kind:
\* when its copy is done the field equals range, and no step of it changes
\* another field
C4_SetReplacesExactlyItsField ==
    [][\A t \in Threads :
          (InSet(t) /\ pc'[t] # pc[t]) =>
             /\ \A f \in StateFields \ {FieldOf(call[t].kind)} :
                    armState'[f] = armState[f]
             /\ pc'[t] = "s_unlock" =>
                    armState'[FieldOf(call[t].kind)] = call[t].range]_vars

\* C5 (as claimed): the state get() returns holds, for every field, the range
\* of the most recent completed set() of that field, or the initial value
C5_GetReturnsLastCompletedSets ==
    \A t \in Threads :
        pc[t] = "g_unlock" =>
            \A f \in CommandFields : out[t][1][f] = lastSet[f]

\* C6 (as claimed): when a set() that ran concurrently with another caller's
\* set() of the same field is the last of them to finish, the field equals its
\* range (its critical section ran last)
C6_ConcurrentSetsLastWriterWins ==
    \A t \in Threads :
        (pc[t] = "s_unlock" /\ overlap[t] /\ ~InSet(Other(t))) =>
            armState[FieldOf(call[t].kind)] = call[t].range

\* C7: run_one() with no Transport configured returns false, submits nothing,
\* acquires nothing and changes neither armState, params_ nor the lifecycle
C7_RunOneWithoutTransportIsNoOp ==
    [][\A t \in Threads :
          (kukaJavaDriverP = NULL /\ pc'[t] # pc[t]
             /\ (pc[t] \in {"r_check", "r_ret"} \/ pc'[t] = "r_check")) =>
             /\ pc[t] = "r_check" => (pc'[t] = "r_ret" /\ ret'[t] = "false")
             /\ ~didSend'[t]
             /\ life' = "idle"
             /\ UNCHANGED <<armState, jt_mutex, params_, device_driver_workP_,
                            driver_threadP, kukaJavaDriverP, io_stopped, io_queue,
                            worker, thrown, lastSet>>]_vars

\* a run_one() has returned false on a Driver whose construct() failed, with
\* commands stored
C7_Witness ==
    \E t \in Threads :
        /\ pc[t] = "r_ret"
        /\ ret[t] = "false"
        /\ kukaJavaDriverP = NULL
        /\ device_driver_workP_
        /\ armState.commandedPosition # <<>>

\* C8: whatever run_one() returns is false, also when it submitted a message
C8_RunOneReturnsFalse ==
    \A t \in Threads :
        /\ ret[t] \in {"none", "false"}
        /\ pc[t] = "r_ret" => ret[t] = "false"

\* a run_one() that submitted a message has returned false
C8_Witness ==
    \E t \in Threads :
        /\ pc[t] = "r_ret"
        /\ didSend[t]
        /\ ret[t] = "false"

\* C9 (as claimed): when construct() leaves by an exception the Driver holds no
\* Transport handle and no worker thread
C9_FailedConstructLeavesNoTransport ==
    life = "c_thrown" =>
        (thrown /\ kukaJavaDriverP = NULL /\ driver_threadP = NULL /\ worker = "none")

\* C9 (amended): a failing bind or connect propagates to the caller, and the
\* failing call stores no handle and spawns no worker: the Driver keeps the
\* handle and the worker it had.  When it had none it has none afterwards, and
\* run_one() on a Driver without handle returns false and submits nothing.
\* The failing call is not entered again: the owner goes back to its caller.
C9_FailedConstructStoresNothing ==
    /\ [][(life = "c_socket" /\ life' \notin {"c_socket", "c_thread"}) =>
             /\ life' = "c_thrown"
             /\ thrown'
             /\ UNCHANGED <<kukaJavaDriverP, driver_threadP, worker>>
             /\ kukaJavaDriverP = NULL =>
                   (driver_threadP' = NULL /\ worker' = "none")]_vars
    /\ [][life = "c_thrown" => life' \in {"c_thrown", "idle"}]_vars
    /\ [][\A t \in Threads :
             (pc[t] = "r_check" /\ kukaJavaDriverP = NULL /\ pc'[t] # pc[t]) =>
                (ret'[t] = "false" /\ ~didSend'[t] /\ io_queue' = io_queue)]_vars

\* the first construct() of a Driver is leaving by an exception
C9_Witness ==
    /\ life = "c_thrown"
    /\ thrown
    /\ kukaJavaDriverP = NULL
    /\ driver_threadP = NULL

\* C10: destruction of a Driver that holds a worker terminates: once the
\* destructor has released the keep-alive token, it goes on to stop the loop and
\* join the worker, and the join returns, whenever the worker is scheduled
\* fairly, whatever is pending and whether or not the worker has entered run()
C10_DestructionTerminates ==
    /\ (life = "d_check" /\ driver_threadP # NULL) ~> (life = "stopped")
    /\ [](life \in {"d_check", "d_join", "stopped"} => ~device_driver_workP_)
    /\ []((life = "stopped" /\ driver_threadP # NULL) =>
             (io_stopped /\ worker = "exited"))

\* a destructor has stopped and joined the worker of a constructed Driver
C10_Witness ==
    /\ life = "stopped"
    /\ driver_threadP # NULL
    /\ worker = "exited"
    /\ ~device_driver_workP_

\* C11: the destructor of a Driver that holds no worker (construct() never
\* called, or every construct() failed) can always take its next step, that
\* step ends it, and it neither stops the io_service nor waits for a worker:
\* it never reaches the join
C11_DestructionWithoutWorkerReturns ==
    /\ []((life = "d_check" /\ driver_threadP = NULL) => ENABLED DestroyStop)
    /\ [][(life = "d_check" /\ driver_threadP = NULL /\ life' # life) =>
             /\ life' = "stopped"
             /\ ~device_driver_workP_'
             /\ UNCHANGED <<io_stopped, io_queue, worker, driver_threadP,
                            kukaJavaDriverP, armState, jt_mutex>>]_vars
    /\ [](life = "d_join" => driver_threadP # NULL)

\* a Driver whose only construct() failed has been destroyed without a stop
C11_Witness ==
    /\ life = "stopped"
    /\ driver_threadP = NULL
    /\ worker = "none"
    /\ params_ # defaultParams
    /\ ~io_stopped

\* the owner is in the step of construct() that makes the thread, on a Driver
\* that already owns one: a second construct() while Running
SecondThreadStep == life = "c_thread" /\ driver_threadP # NULL /\ life' # life

\* C12 (as claimed): a second construct() while Running stores a second
\* Transport and a second worker and returns, with the first worker still
\* alive, neither stopped nor joined
C12_SecondConstructLeaksFirstWorker ==
    [][SecondThreadStep =>
          /\ life' = "idle"
          /\ kukaJavaDriverP' = "transport2"
          /\ driver_threadP' = "thread2"
          /\ worker' \in {"spawned", "running"}
          /\ ~io_stopped']_vars

\* C12 (amended): a second construct() while Running stores a second Transport
\* handle and makes a second thread without stopping or joining the first
\* worker, and does not return: replacing the owned joinable thread ends the
\* process, after which no operation of the Driver takes a step
C12_SecondConstructTerminates ==
    /\ [][SecondThreadStep =>
             /\ life' = "aborted"
             /\ kukaJavaDriverP' = "transport2"
             /\ driver_threadP' = "thread2"
             /\ worker' = worker /\ worker \in {"spawned", "running"}
             /\ UNCHANGED <<io_stopped, io_queue>>]_vars
    /\ [][life # "aborted"]_vars

\* a second construct() on a Driver whose worker is in run() has ended the process
C12_Witness ==
    /\ life = "aborted"
    /\ kukaJavaDriverP = "transport2"
    /\ driver_threadP = "thread2"
    /\ worker = "running"

\* C13: messages are enqueued and transmitted in the order run_one() submitted
\* them: a submission leaves every pending message ahead of the new one, the
\* pending messages lie in the queue in the order of their submission, and the
\* worker never transmits a message while one submitted before it is pending
C13_TransmissionInSubmissionOrder ==
    /\ [][\A t \in Threads :
             Submits(t) =>
                /\ Len(io_queue') = Len(io_queue) + 1
                /\ \A i \in 1..Len(io_queue) : io_queue'[i] = io_queue[i]
                /\ Submitted.ahead = Len(io_queue)]_vars
    /\ [](\A i \in 1..Len(io_queue) : io_queue[i].ahead = i - 1)
    /\ [][Len(io_queue') < Len(io_queue) =>
             \E i \in 1..Len(io_queue) :
                 /\ io_queue[i].ahead = 0
                 /\ io_queue' = Without(io_queue, i)]_vars

\* the messages of two run_one() calls, with different positions, are pending
\* in the order of their submission and the worker is in the loop
C13_Witness ==
    /\ Len(io_queue) = 2
    /\ io_queue[1].position = <<>> /\ io_queue[1].ahead = 0
    /\ io_queue[2].position = Down(MaxLen) /\ io_queue[2].ahead = 1
    /\ worker = "running"
    /\ AllIdle

\* the destructor has begun
Destroying == life \in {"d_check", "d_join", "stopped"}

\* C14: from a successful construct() until destruction begins the worker
\* stays in (or on its way into) the event loop, however long the loop is
\* idle: the token exists before the worker is made and is held until the
\* destructor, the loop is not stopped, the worker exits only once destruction
\* has begun, and every submission of run_one() finds the worker there
C14_WorkerStaysUntilDestruction ==
    /\ []((driver_threadP # NULL /\ ~Destroying) =>
             /\ device_driver_workP_
             /\ worker \in {"spawned", "running"}
             /\ ~io_stopped)
    /\ [][(worker' = "exited" /\ worker # "exited") => life \in {"d_check", "d_join"}]_vars
    /\ [][(worker = "none" /\ worker' # "none") => device_driver_workP_]_vars
    /\ [][\A t \in Threads :
             Submits(t) => (worker \in {"spawned", "running"} /\ ~io_stopped')]_vars

\* the worker is in the loop of a live Driver with nothing pending, and a
\* run_one() is about to submit
C14_Witness ==
    /\ life = "idle"
    /\ worker = "running"
    /\ io_queue = <<>>
    /\ device_driver_workP_
    /\ \E t \in Threads : pc[t] = "r_send"

\* C15 (as claimed): every call of the joint-state read-back get(output, tag)
\* ends in a failed assertion that ends the process: it never returns to its
\* caller, and it writes nothing to its output
C15_StateGetAlwaysFails ==
    [][\A t \in Threads :
          (pc[t] = "gs_verify" /\ pc'[t] # pc[t]) =>
             /\ pc'[t] = "gs_failed"
             /\ life' = "aborted"
             /\ out' = out
             /\ armState' = armState]_vars

\* the lifecycle state of the Driver: Stopped once the destructor has ended,
\* Running while it holds a Transport handle and a worker thread
Phase ==
    IF life = "stopped" THEN "Stopped"
    ELSE IF kukaJavaDriverP # NULL /\ driver_threadP # NULL THEN "Running"
    ELSE "Uninitialized"

\* C16: the lifecycle state changes only Uninitialized -> Running,
\* Uninitialized -> Stopped and Running -> Stopped; Running is entered only by
\* the last step of a construct() that did not fail, Stopped only by the last
\* step of the destructor, and nothing follows it; a failing construct() and
\* every step of set(), get() and run_one() leave the lifecycle state as it was
C16_LifecycleOrder ==
    /\ [][Phase' # Phase =>
             \/ Phase = "Uninitialized" /\ Phase' \in {"Running", "Stopped"}
             \/ Phase = "Running" /\ Phase' = "Stopped"]_vars
    /\ [][(Phase' = "Running" /\ Phase # "Running") =>
             (life = "c_thread" /\ life' = "idle" /\ ~thrown')]_vars
    /\ [][(Phase' = "Stopped" /\ Phase # "Stopped") =>
             life \in {"d_check", "d_join"}]_vars
    /\ [][Phase # "Stopped"]_vars
    /\ [][(life' = "c_thrown" \/ life = "c_thrown") => Phase' = Phase]_vars
    /\ [][(\E t \in Threads : pc'[t] # pc[t]) => Phase' = Phase]_vars

\* a construct() on a Running Driver is failing: the Driver is still Running
C16_Witness ==
    /\ life = "c_thrown"
    /\ thrown
    /\ Phase = "Running"
    /\ worker = "running"

\* what a step of set() at position p with arguments c may make of the
\* StateStore s, whatever the lifecycle state
SetEffects(s, c, p) ==
    LET f == FieldOf(c.kind) IN
      CASE p = "s_clear" -> {[s EXCEPT ![f] = <<>>]}
        [] p = "s_copy"  -> IF c.kind = CartesianWrenchCommand
                               THEN {[s EXCEPT ![f] = CopyInPlace(s[f], c.range)],
                                     [s EXCEPT ![f] = s[f] \o c.range]}
                               ELSE {[s EXCEPT ![f] = s[f] \o c.range]}
        [] OTHER         -> {s}

\* set() and get() act on the StateStore alone and alike in every lifecycle
\* state, and construct() does not touch the StateStore
SetGetApartFromLifecycle ==
    /\ [][\A t \in Threads :
             (InSet(t) /\ pc'[t] # pc[t]) =>
                /\ armState' \in SetEffects(armState, call[t], pc[t])
                /\ UNCHANGED <<kukaJavaDriverP, driver_threadP, worker,
                               device_driver_workP_, params_, io_stopped, io_queue,
                               life>>]_vars
    /\ [][\A t \in Threads :
             (pc[t] \in {"g_lock", "g_copy", "g_unlock"} /\ pc'[t] # pc[t]) =>
                /\ pc[t] = "g_copy" => out'[t] = <<armState>>
                /\ UNCHANGED <<armState, kukaJavaDriverP, driver_threadP, worker,
                               device_driver_workP_, params_, io_stopped, io_queue,
                               life>>]_vars
    /\ [][(life \in {"c_socket", "c_thread", "c_thrown"} \/
           life' \in {"c_socket", "c_thread", "c_thrown"}) =>
             UNCHANGED <<armState, jt_mutex, lastSet>>]_vars

\* C17 (as claimed): set() and get() have the same effect in every lifecycle
\* state and change no lifecycle member, construct() leaves every StateStore
\* field unchanged, and so the message a run_one() submits carries the values
\* set last, also when they were set before construct(): the angles as its
\* position and the torques as its acceleration
C17_SetGetIndependentOfLifecycle ==
    /\ SetGetApartFromLifecycle
    /\ [][\A t \in Threads :
             Submits(t) =>
                /\ Submitted.position = snap[t].position
                /\ Submitted.acceleration = snap[t].torque]_vars

\* C18 (as claimed): the message run_one() submits is one snapshot of the
\* StateStore: at some instant of the call the stored commanded angles were
\* the message's position and the stored commanded torques its acceleration
C18_MessageIsOneSnapshot ==
    [][\A t \in Threads :
          Submits(t) =>
             <<Submitted.position, Submitted.acceleration>> \in snap[t].seen]_vars

\* caller t is inside set(), get(KukaState&) or run_one()
InCall(t) == InSet(t) \/ pc[t] \in {"g_lock", "g_copy", "g_unlock"}
                      \/ InRunOne(t) \/ pc[t] = "r_ret"

\* C19: no caller tries to acquire jt_mutex while it holds it, a caller that
\* is in no call or has left run_one()'s second scope holds nothing, and
\* under fair scheduling every set(), get() and run_one() returns, unless a
\* failed assertion of the unimplemented get() has ended the process
C19_CallsReturn ==
    /\ [](\A t \in Threads :
             pc[t] \in {"s_lock", "g_lock", "r_lock1", "r_lock2"} => jt_mutex # t)
    /\ [](\A t \in Threads :
             pc[t] \in {"idle", "r_ret", "r_check"} => jt_mutex # t)
    /\ \A t \in Threads : InCall(t) ~> (pc[t] = "idle" \/ ~Alive)

\* a set() waits for jt_mutex while a run_one() holds it to submit
C19_Witness ==
    \E t \in Threads :
        /\ pc[t] = "s_lock"
        /\ pc[Other(t)] = "r_send"
        /\ jt_mutex = Other(t)
        /\ Len(io_queue) = MaxQueue

====
